---- MODULE Spec2Model ----
(***************************************************************************)
(* Model of gauge's step validation (validation/validate.go): the run      *)
(* coordinator Validate / ValidateSpecs, the visitor specValidator with    *)
(* its per-run cache, and the error aggregation of getErrMap.              *)
(*                                                                         *)
(* Pointers are modelled as sequences of length at most one: <<>> is nil   *)
(* and <<x>> points to x.  Go maps are functions; a key is present iff it  *)
(* is in the DOMAIN.  A Go string the code computes on (getMessage) is a   *)
(* sequence of one-character strings.                                      *)
(***************************************************************************)
EXTENDS Integers, Sequences, FiniteSets, TLC

\* ------------------------------------------------------------------ bounds

\* Total number of top-level steps (context, scenario and teardown steps)
\* in all the specs handed to one run.
MaxSteps == 3

\* Longest start and end string handed to ValidateTableRowsRange.
MaxArgLen == 2

\* Largest rowCount handed to ValidateTableRowsRange.
MaxRowCount == 2

\* ------------------------------------------------------- the parsed project

\* Files of the specs a run can select, in selection order.
SpecFiles == <<"s1.spec", "s2.spec">>

\* The concept dictionary built by the parser: concept "k" is defined in
\* k.cpt with body <<kk, a>>, and the nested concept "kk" in kk.cpt with
\* body <<b>>.
ConceptDictionary ==
    [k  |-> [FileName |-> "k.cpt",  ConceptSteps |-> <<"kk", "a">>],
     kk |-> [FileName |-> "kk.cpt", ConceptSteps |-> <<"b">>]]

\* conceptsDictionary.Search(text): the concept defined under that text.
Search(text) == ConceptDictionary[text]

\* Step texts a spec file uses at its top level: the literal step "a" and
\* the concept "k".  The literal step "b" occurs in the body of "kk" only.
Names == {"a", "k"}

\* All sequences of n step texts.
NameSeqs(n) == [1..n -> Names]

RECURSIVE ScenarioLists(_)
\* All lists of scenarios (each a non-empty list of steps) with n steps in all.
ScenarioLists(n) ==
    IF n = 0 THEN {<<>>}
    ELSE UNION {{<<first>> \o rest : first \in NameSeqs(k),
                                     rest \in ScenarioLists(n - k)} : k \in 1..n}

\* All specs (without file name) with exactly n top-level steps.
SpecShapes(n) ==
    UNION {{[Contexts |-> c, Scenarios |-> s, TearDownSteps |-> t] :
                c \in NameSeqs(nc), s \in ScenarioLists(ns),
                t \in NameSeqs(nt)} :
           <<nc, ns, nt>> \in {x \in (0..n) \X (0..n) \X (0..n) :
                                  x[1] + x[2] + x[3] = n}}

RECURSIVE SpecLists(_, _)
\* All lists of at most m specs with at most n top-level steps in all.
SpecLists(n, m) ==
    IF m = 0 THEN {<<>>}
    ELSE {<<>>} \cup
         UNION {{<<first>> \o rest : first \in SpecShapes(k),
                                     rest \in SpecLists(n - k, m - 1)} : k \in 0..n}

\* The results parser.ParseSpecs can hand over: specs get their file names
\* by position.
ParsedSpecs ==
    {[i \in 1..Len(l) |->
        [FileName |-> SpecFiles[i], Contexts |-> l[i].Contexts,
         Scenarios |-> l[i].Scenarios, TearDownSteps |-> l[i].TearDownSteps]] :
     l \in SpecLists(MaxSteps, Len(SpecFiles))}


\* ------------------------------------------------------------------- state

VARIABLES
    pc,                    \* position in Validate / ValidateSpecs
    specs,                 \* s of ValidateSpecs == validator.specsToExecute
    runner,                \* "none", "running" or "killed"
    kills,                 \* number of calls of Runner.Kill
    requests,              \* step texts sent to the runner, in order
    responses,             \* what getResponseFromRunner returned for each request
    specIdx,               \* index of the spec being validated
    pending,               \* literal steps of that spec Traverse has still to visit
    stepValidationErrors,  \* specValidator.stepValidationErrors
    stepValidationCache,   \* specValidator.stepValidationCache
    validationStatus,      \* validationStatus of validator.validate
    errMap,                \* errMap of ValidateSpecs
    res,                   \* the ValidationResult returned to Validate
    logged,                \* logger.Info messages of Validate, in order
    exitCode,              \* <<>> while running or returned, <<c>> after os.Exit(c)
    start, end, rowCount,  \* the arguments of a call of ValidateTableRowsRange
    returned               \* <<>> before that call returns, then <<its results>>

\* The state of a validation run.
runVars == <<pc, specs, runner, kills, requests, responses, specIdx, pending,
             stepValidationErrors, stepValidationCache, validationStatus, errMap,
             res, logged, exitCode>>

\* The state of a call of ValidateTableRowsRange.
rangeVars == <<start, end, rowCount, returned>>

vars == <<runVars, rangeVars>>

\* ---------------------------------------------------------- the step tree
\* A step is identified by its position in the tree, not by its text:
\* <<spec, section, index>> for a top-level step, where section 0 holds the
\* context steps, section j > 0 the steps of the j-th scenario and section
\* TearDownSection the teardown steps; a step of a concept body appends its
\* index in the body to the position of the concept step that invokes it.

TearDownSection == 0 - 1

\* The top-level step lists of spec i.
SectionSteps(i, section) ==
    IF section = 0 THEN specs[i].Contexts
    ELSE IF section = TearDownSection THEN specs[i].TearDownSteps
    ELSE specs[i].Scenarios[section]

RECURSIVE Value(_)
\* step.Value
Value(step) ==
    IF Len(step) = 3 THEN SectionSteps(step[1], step[2])[step[3]]
    ELSE Search(Value(SubSeq(step, 1, Len(step) - 1))).ConceptSteps[step[Len(step)]]

\* step.IsConcept
IsConcept(step) == Value(step) \in DOMAIN ConceptDictionary

\* step.ConceptSteps
ConceptSteps(step) ==
    [j \in 1..Len(Search(Value(step)).ConceptSteps) |-> Append(step, j)]

\* step.Parent: nil for a top-level step, else the invoking concept step.
Parent(step) ==
    IF Len(step) = 3 THEN <<>> ELSE <<SubSeq(step, 1, Len(step) - 1)>>

\* The steps of a top-level list of spec i, as step identities.
StepsOf(i, section) ==
    [j \in 1..Len(SectionSteps(i, section)) |-> <<i, section, j>>]

\* scenario.Steps of the scenario <<i, j>>.
ScenarioSteps(scenario) == StepsOf(scenario[1], scenario[2])

\* spec.Scenarios of spec i, as scenario identities.
Scenarios(i) == [j \in 1..Len(specs[i].Scenarios) |-> <<i, j>>]

\* spec.Contexts and spec.TearDownSteps of spec i.
Contexts(i) == StepsOf(i, 0)
TearDownSteps(i) == StepsOf(i, TearDownSection)

RECURSIVE ExpandWithConcept(_)
\* Expand handing the concept step itself to the validation as well, after
\* its body.
ExpandWithConcept(steps) ==
    IF steps = <<>> THEN <<>>
    ELSE (IF IsConcept(Head(steps))
          THEN ExpandWithConcept(ConceptSteps(Head(steps))) \o <<Head(steps)>>
          ELSE <<Head(steps)>>) \o ExpandWithConcept(Tail(steps))

RECURSIVE Expand(_)
\* The literal steps specValidator.Step visits for a list of steps, in
\* order: a concept step is replaced by the expansion of its body.
Expand(steps) ==
    IF steps = <<>> THEN <<>>
    ELSE (IF IsConcept(Head(steps)) THEN Expand(ConceptSteps(Head(steps)))
          ELSE <<Head(steps)>>) \o Expand(Tail(steps))

RECURSIVE ScenariosFrom(_, _)
\* The steps of scenarios j.. of spec i, in order.
ScenariosFrom(i, j) ==
    IF j > Len(specs[i].Scenarios) THEN <<>>
    ELSE StepsOf(i, j) \o ScenariosFrom(i, j + 1)

\* Specification.Traverse, as far as the validator's callbacks act: the
\* literal steps handed to specValidator.Step, in order (context steps,
\* the steps of each scenario, teardown steps).
Traverse(i) ==
    Expand(Contexts(i) \o ScenariosFrom(i, 1) \o TearDownSteps(i))


\* ----------------------------------------------------------------- strings

UpperCase ==
    <<"A", "B", "C", "D", "E", "F", "G", "H", "I", "J", "K", "L", "M", "N",
      "O", "P", "Q", "R", "S", "T", "U", "V", "W", "X", "Y", "Z">>

LowerCase ==
    <<"a", "b", "c", "d", "e", "f", "g", "h", "i", "j", "k", "l", "m", "n",
      "o", "p", "q", "r", "s", "t", "u", "v", "w", "x", "y", "z">>

\* Index of character c in the alphabet, 0 when it is not in it.
IndexIn(alphabet, c) ==
    IF \E i \in 1..Len(alphabet) : alphabet[i] = c
    THEN CHOOSE i \in 1..Len(alphabet) : alphabet[i] = c
    ELSE 0

\* strings.ToLower and strings.ToUpper
ToLower(str) ==
    [i \in 1..Len(str) |->
        IF IndexIn(UpperCase, str[i]) > 0 THEN LowerCase[IndexIn(UpperCase, str[i])]
        ELSE str[i]]
ToUpper(str) ==
    [i \in 1..Len(str) |->
        IF IndexIn(LowerCase, str[i]) > 0 THEN UpperCase[IndexIn(LowerCase, str[i])]
        ELSE str[i]]

\* strings.Replace(str, old, new, -1) for one-character old and new.
Replace(str, old, new) ==
    [i \in 1..Len(str) |-> IF str[i] = old THEN new ELSE str[i]]

\* getMessage: "STEP_IMPLEMENTATION_NOT_FOUND" -> "Step implementation not found"
getMessage(message) ==
    LET lower == ToLower(Replace(message, "_", " "))
    IN  ToUpper(SubSeq(lower, 1, 1)) \o SubSeq(lower, 2, Len(lower))

\* StepValidateResponse_ErrorType and its String().
STEP_IMPLEMENTATION_NOT_FOUND == 0
DUPLICATE_STEP_IMPLEMENTATION == 1

ErrorTypeString(e) ==
    IF e = STEP_IMPLEMENTATION_NOT_FOUND
    THEN
        <<"S", "T", "E", "P", "_", "I", "M", "P", "L", "E", "M", "E", "N",
          "T", "A", "T", "I", "O", "N", "_", "N", "O", "T", "_", "F", "O",
          "U", "N", "D">>
    ELSE
        <<"D", "U", "P", "L", "I", "C", "A", "T", "E", "_", "S", "T", "E",
          "P", "_", "I", "M", "P", "L", "E", "M", "E", "N", "T", "A", "T",
          "I", "O", "N">>

\* var invalidResponse gauge_messages.StepValidateResponse_ErrorType = -1
invalidResponse == 0 - 1

\* A character sequence the code built, as the string it spells.
String(chars) ==
    CASE chars = <<"S", "t", "e", "p", " ", "i", "m", "p", "l", "e", "m", "e", "n",
                   "t", "a", "t", "i", "o", "n", " ", "n", "o", "t", " ", "f", "o",
                   "u", "n", "d">> -> "Step implementation not found"
      [] chars = <<"D", "u", "p", "l", "i", "c", "a", "t", "e", " ", "s", "t", "e",
                   "p", " ", "i", "m", "p", "l", "e", "m", "e", "n", "t", "a", "t",
                   "i", "o", "n">> -> "Duplicate step implementation"

InvalidResponseMessage == "Invalid response from runner for Validation request"

\* err.Error() of a failed round-trip to the runner.
TransportErrorText == "Request Timeout"

\* ------------------------------------------------------- the runner client
\* The error type the runner reports when it finds a step text invalid:
\* "a" has no implementation, "b" has more than one.
RunnerErrorType ==
    [a |-> STEP_IMPLEMENTATION_NOT_FOUND, b |-> DUPLICATE_STEP_IMPLEMENTATION]

\* What getResponseFromRunner can return for one request with the given
\* step text: a transport error, or a message that is a
\* StepValidateResponse (valid, or invalid with an error type) or a message
\* of another type.
RunnerResponses(text) ==
    {[err |-> TRUE, MessageType |-> "None", IsValid |-> FALSE,
      ErrorType |-> STEP_IMPLEMENTATION_NOT_FOUND],
     [err |-> FALSE, MessageType |-> "StepValidateResponse", IsValid |-> TRUE,
      ErrorType |-> STEP_IMPLEMENTATION_NOT_FOUND],
     [err |-> FALSE, MessageType |-> "StepValidateResponse", IsValid |-> FALSE,
      ErrorType |-> RunnerErrorType[text]],
     [err |-> FALSE, MessageType |-> "ExecutionStatusResponse", IsValid |-> FALSE,
      ErrorType |-> STEP_IMPLEMENTATION_NOT_FOUND]}

\* --------------------------------------------------------- the step validator

NewValidationError(s, m, f, e) ==
    [step |-> s, message |-> m, fileName |-> f, errorType |-> e]

\* validateStep giving the error of a transport failure the error type
\* invalidResponse.
validateStepTransportTyped(s, r) ==
    IF r.err
    THEN <<NewValidationError(s, TransportErrorText, specs[specIdx].FileName,
                              <<invalidResponse>>)>>
    ELSE IF r.MessageType = "StepValidateResponse"
    THEN IF ~r.IsValid
         THEN LET msg == String(getMessage(ErrorTypeString(r.ErrorType)))
              IN  IF Parent(s) = <<>>
                  THEN <<NewValidationError(s, msg, specs[specIdx].FileName,
                                            <<r.ErrorType>>)>>
                  ELSE <<NewValidationError(s, msg,
                                            Search(Value(Parent(s)[1])).FileName,
                                            <<r.ErrorType>>)>>
         ELSE <<>>
    ELSE <<NewValidationError(s, InvalidResponseMessage, specs[specIdx].FileName,
                              <<invalidResponse>>)>>

\* specValidator.validateStep, given the runner's answer r to its request:
\* nil (<<>>) for a valid step, else a pointer to the error.
validateStep(s, r) ==
    IF r.err
    THEN <<NewValidationError(s, TransportErrorText, specs[specIdx].FileName, <<>>)>>
    ELSE IF r.MessageType = "StepValidateResponse"
    THEN IF ~r.IsValid
         THEN LET msg == String(getMessage(ErrorTypeString(r.ErrorType)))
              IN  IF Parent(s) = <<>>
                  THEN <<NewValidationError(s, msg, specs[specIdx].FileName,
                                            <<r.ErrorType>>)>>
                  ELSE <<NewValidationError(s, msg,
                                            Search(Value(Parent(s)[1])).FileName,
                                            <<r.ErrorType>>)>>
         ELSE <<>>
    ELSE <<NewValidationError(s, InvalidResponseMessage, specs[specIdx].FileName,
                              <<invalidResponse>>)>>

\* CachedError reusing the cached error, that of the first step with the
\* text.
CachedErrorReused(s, val) == val

\* CachedError keeping the file name of the cached error.
CachedErrorCachedFile(s, val) ==
    NewValidationError(s, val.message, val.fileName, val.errorType)

\* CachedError losing the error type of the cached error.
CachedErrorNoType(s, val) ==
    IF Parent(s) = <<>>
    THEN NewValidationError(s, val.message, specs[specIdx].FileName, <<>>)
    ELSE NewValidationError(s, val.message, Search(Value(Parent(s)[1])).FileName, <<>>)

\* The error specValidator.Step records for step s on a cache hit with the
\* non-nil cached error val.
CachedError(s, val) ==
    IF Parent(s) = <<>>
    THEN NewValidationError(s, val.message, specs[specIdx].FileName, val.errorType)
    ELSE NewValidationError(s, val.message, Search(Value(Parent(s)[1])).FileName,
                            val.errorType)

\* CacheStore keeping errors only: a valid outcome is not remembered.
CacheStoreErrorsOnly(cache, s, err) ==
    IF err = <<>> THEN cache
    ELSE [t \in DOMAIN cache \cup {Value(s)} |-> IF t = Value(s) THEN err ELSE cache[t]]

\* The cache after a miss on step s that ended with err (nil or an error).
CacheStore(cache, s, err) ==
    [t \in DOMAIN cache \cup {Value(s)} |-> IF t = Value(s) THEN err ELSE cache[t]]


\* -------------------------------------------------------- the error aggregator

\* m[k] of a Go map: the zero value (nil slice) when the key is absent.
Get(m, k) == IF k \in DOMAIN m THEN m[k] ELSE <<>>

\* m[k] = v
Put(m, k, v) == [x \in DOMAIN m \cup {k} |-> IF x = k THEN v ELSE m[x]]

NewValidationErrMaps == [SpecErrs |-> <<>>, ScenarioErrs |-> <<>>, StepErrs |-> <<>>]

\* if err, ok := errMap.StepErrs[step]; ok { append to ScenarioErrs[scenario] }
AppendScenarioError(scenario, em, step) ==
    IF step \in DOMAIN em.StepErrs
    THEN [em EXCEPT !.ScenarioErrs =
             Put(@, scenario, Append(Get(@, scenario), em.StepErrs[step]))]
    ELSE em

RECURSIVE fillScenarioErrors(_, _, _)
fillScenarioErrors(scenario, em, steps) ==
    IF steps = <<>> THEN em
    ELSE fillScenarioErrors(scenario,
             AppendScenarioError(scenario,
                 IF IsConcept(Head(steps))
                 THEN fillScenarioErrors(scenario, em, ConceptSteps(Head(steps)))
                 ELSE em,
                 Head(steps)),
             Tail(steps))

\* PropagateToScenarios giving err to every scenario of the spec, with or
\* without entry.
PropagateToEvery(spec, scenarioErrs, err) ==
    LET scns == {Scenarios(spec)[j] : j \in 1..Len(Scenarios(spec))}
    IN  [sc \in DOMAIN scenarioErrs \cup scns |->
            IF sc \in scns THEN Append(Get(scenarioErrs, sc), err)
            ELSE scenarioErrs[sc]]

\* PropagateToScenarios giving err to no scenario.
PropagateToNone(spec, scenarioErrs, err) == scenarioErrs

\* The inner loop of fillSpecErrors: err goes to every scenario of the spec
\* that has no entry yet.
PropagateToScenarios(spec, scenarioErrs, err) ==
    LET scns == {Scenarios(spec)[j] : j \in 1..Len(Scenarios(spec))}
    IN  [sc \in DOMAIN scenarioErrs \cup scns |->
            IF sc \in DOMAIN scenarioErrs THEN scenarioErrs[sc] ELSE <<err>>]

\* if err, ok := errMap.StepErrs[context]; ok { append to SpecErrs[spec] and
\* give err to the scenarios without entry }
AppendSpecError(spec, em, context) ==
    IF context \in DOMAIN em.StepErrs
    THEN [em EXCEPT
             !.SpecErrs = Put(@, spec, Append(Get(@, spec), em.StepErrs[context])),
             !.ScenarioErrs = PropagateToScenarios(spec, @, em.StepErrs[context])]
    ELSE em

RECURSIVE fillSpecErrors(_, _, _)
fillSpecErrors(spec, em, steps) ==
    IF steps = <<>> THEN em
    ELSE fillSpecErrors(spec,
             AppendSpecError(spec,
                 IF IsConcept(Head(steps))
                 THEN fillSpecErrors(spec, em, ConceptSteps(Head(steps)))
                 ELSE em,
                 Head(steps)),
             Tail(steps))

RECURSIVE FillStepErrs(_, _)
\* for _, err := range errors { errMap.StepErrs[err.step] = err }
FillStepErrs(stepErrs, errors) ==
    IF errors = <<>> THEN stepErrs
    ELSE FillStepErrs(Put(stepErrs, Head(errors).step, Head(errors)), Tail(errors))

RECURSIVE FillScenarios(_, _, _)
\* The loop over spec.Scenarios from scenario j on.
FillScenarios(spec, em, j) ==
    IF j > Len(Scenarios(spec)) THEN em
    ELSE FillScenarios(spec,
             fillScenarioErrors(Scenarios(spec)[j], em,
                                ScenarioSteps(Scenarios(spec)[j])),
             j + 1)

\* SkippedScnInSpec not reset per spec: it counts every scenario that has
\* an entry so far, those of the specs visited earlier included.
SkippedScnOfAllSpecs(spec, em) == Cardinality(DOMAIN em.ScenarioErrs)

\* skippedScnInSpec after the loop over the scenarios.
SkippedScnInSpec(spec, em) ==
    Cardinality({j \in 1..Len(Scenarios(spec)) :
                    Scenarios(spec)[j] \in DOMAIN em.ScenarioErrs})

\* RollUp as soon as one scenario has errors.
RollUpAnyFailed(spec, em) ==
    IF Len(Scenarios(spec)) > 0 /\ SkippedScnInSpec(spec, em) > 0
    THEN [em EXCEPT !.SpecErrs =
             Put(@, spec, Get(@, spec) \o Get(em.ScenarioErrs, Scenarios(spec)[1]))]
    ELSE em

\* RollUp copying the list of the last scenario instead of the first.
RollUpLastScenario(spec, em) ==
    IF Len(Scenarios(spec)) > 0 /\ SkippedScnInSpec(spec, em) = Len(Scenarios(spec))
    THEN [em EXCEPT !.SpecErrs =
             Put(@, spec, Get(@, spec) \o
                 Get(em.ScenarioErrs, Scenarios(spec)[Len(Scenarios(spec))]))]
    ELSE em

\* The roll-up of a spec all of whose scenarios have errors.
RollUp(spec, em) ==
    IF Len(Scenarios(spec)) > 0 /\ SkippedScnInSpec(spec, em) = Len(Scenarios(spec))
    THEN [em EXCEPT !.SpecErrs =
             Put(@, spec, Get(@, spec) \o Get(em.ScenarioErrs, Scenarios(spec)[1]))]
    ELSE em

\* The body of getErrMap's loop for one spec and its errors.
GetErrMapOfSpec(em, spec, errors) ==
    fillSpecErrors(spec,
        RollUp(spec,
            FillScenarios(spec, [em EXCEPT !.StepErrs = FillStepErrs(@, errors)], 1)),
        Contexts(spec) \o TearDownSteps(spec))

RECURSIVE GetErrMapFrom(_, _, _)
GetErrMapFrom(em, validationErrors, order) ==
    IF order = <<>> THEN em
    ELSE GetErrMapFrom(GetErrMapOfSpec(em, Head(order), validationErrors[Head(order)]),
                       validationErrors, Tail(order))

\* getErrMap, with the order in which range visits the keys of the map.
getErrMap(validationErrors, order) ==
    GetErrMapFrom(NewValidationErrMaps, validationErrors, order)

\* The orders in which range can visit the keys of a map.
RangeOrders(m) ==
    {o \in [1..Cardinality(DOMAIN m) -> DOMAIN m] :
        \A i, j \in DOMAIN o : i # j => o[i] # o[j]}


\* --------------------------------------------------------- the run coordinator

\* NewValidationResult(s, errMap, r, e...)
NewValidationResult(s, em, r, e) ==
    [SpecCollection |-> s, ErrMap |-> em, Runner |-> r, Errs |-> e]

\* SpecCollection.Size()
Size(specCollection) == Len(specCollection[1])

Init ==
    /\ pc = "ProjectManifest"
    /\ specs = <<>>
    /\ runner = "none"
    /\ kills = 0
    /\ requests = <<>>
    /\ responses = <<>>
    /\ specIdx = 0
    /\ pending = <<>>
    /\ stepValidationErrors = <<>>
    /\ stepValidationCache = <<>>
    /\ validationStatus = <<>>
    /\ errMap = NewValidationErrMaps
    /\ res = NewValidationResult(<<>>, <<>>, <<>>, <<>>)
    /\ logged = <<>>
    /\ exitCode = <<>>
    /\ start = <<>>
    /\ end = <<>>
    /\ rowCount = 0
    /\ returned = <<>>

\* Validate calls ValidateSpecs, which reads the project manifest.
ProjectManifest ==
    /\ pc = "ProjectManifest"
    /\ \E ok \in BOOLEAN :
          IF ok
          THEN pc' = "ParseConcepts" /\ UNCHANGED res
          ELSE /\ res' = NewValidationResult(<<>>, <<>>, <<>>, <<"manifest error">>)
               /\ pc' = "Validate"
    /\ UNCHANGED <<responses, rangeVars>>
    /\ UNCHANGED <<specs, runner, kills, requests, specIdx, pending,
                   stepValidationErrors, stepValidationCache, validationStatus,
                   errMap, logged, exitCode>>

\* ParseConcepts with the check of the critical errors placed after startAPI.
ParseConceptsAfterStart ==
    /\ pc = "ParseConcepts"
    /\ \E critical \in BOOLEAN :
          IF critical
          THEN /\ res' = NewValidationResult(<<>>, <<>>, <<>>, <<"critical error">>)
               /\ runner' = "running"
               /\ pc' = "Validate"
          ELSE /\ pc' = "ParseSpecs"
               /\ UNCHANGED <<res, runner>>
    /\ UNCHANGED <<responses, rangeVars>>
    /\ UNCHANGED <<specs, kills, requests, specIdx, pending,
                   stepValidationErrors, stepValidationCache, validationStatus,
                   errMap, logged, exitCode>>

\* parser.ParseConcepts and the return on critical errors.  (res.Ok is
\* not read before ValidateSpecsReturn, which draws it.)
ParseConcepts ==
    /\ pc = "ParseConcepts"
    /\ \E critical \in BOOLEAN :
          IF critical
          THEN /\ res' = NewValidationResult(<<>>, <<>>, <<>>, <<"critical error">>)
               /\ pc' = "Validate"
          ELSE /\ pc' = "ParseSpecs"
               /\ UNCHANGED res
    /\ UNCHANGED <<responses, rangeVars>>
    /\ UNCHANGED <<specs, runner, kills, requests, specIdx, pending,
                   stepValidationErrors, stepValidationCache, validationStatus,
                   errMap, logged, exitCode>>

\* parser.ParseSpecs.  (specsFailed is not read before
\* ValidateSpecsReturn, which draws it.)
ParseSpecs ==
    /\ pc = "ParseSpecs"
    /\ \E s \in ParsedSpecs : specs' = s
    /\ pc' = "startAPI"
    /\ UNCHANGED <<responses, rangeVars>>
    /\ UNCHANGED <<runner, kills, requests, specIdx, pending,
                   stepValidationErrors, stepValidationCache, validationStatus,
                   errMap, res, logged, exitCode>>

\* startAPI: the runner comes up, or logger.Fatalf ends the process.
startAPI ==
    /\ pc = "startAPI"
    /\ \E started \in BOOLEAN :
          IF started
          THEN runner' = "running" /\ pc' = "validate" /\ UNCHANGED exitCode
          ELSE exitCode' = <<1>> /\ pc' = "exited" /\ UNCHANGED runner
    /\ UNCHANGED <<responses, rangeVars>>
    /\ UNCHANGED <<specs, kills, requests, specIdx, pending,
                   stepValidationErrors, stepValidationCache, validationStatus,
                   errMap, res, logged>>

\* validator.validate up to its loop: a fresh status map and one
\* specValidator with one fresh cache for all the specs.
validate ==
    /\ pc = "validate"
    /\ validationStatus' = <<>>
    /\ stepValidationCache' = <<>>
    /\ specIdx' = 1
    /\ pc' = IF Len(specs) = 0 THEN "getErrMap" ELSE "SpecHeading"
    /\ UNCHANGED <<responses, rangeVars>>
    /\ UNCHANGED <<specs, runner, kills, requests, pending,
                   stepValidationErrors, errMap, res, logged, exitCode>>

\* SpecHeading leaving the error accumulator as it is.
SpecHeadingNoReset ==
    /\ pc = "SpecHeading"
    /\ pending' = Traverse(specIdx)
    /\ pc' = "Step"
    /\ UNCHANGED <<responses, rangeVars>>
    /\ UNCHANGED <<specs, runner, kills, requests, specIdx, stepValidationErrors,
                   stepValidationCache, validationStatus, errMap, res, logged,
                   exitCode>>

\* The loop sets specValidator.specification; Traverse starts with the
\* callback SpecHeading, which resets the error accumulator.
SpecHeading ==
    /\ pc = "SpecHeading"
    /\ stepValidationErrors' = <<>>
    /\ pending' = Traverse(specIdx)
    /\ pc' = "Step"
    /\ UNCHANGED <<responses, rangeVars>>
    /\ UNCHANGED <<specs, runner, kills, requests, specIdx,
                   stepValidationCache, validationStatus, errMap, res, logged,
                   exitCode>>

\* The literal step Traverse hands to specValidator.Step next.
CurrentStep == Head(pending)

\* StepCacheMiss ending the traversal of the spec at the first error.
StepCacheMissStops ==
    /\ pc = "Step"
    /\ pending # <<>>
    /\ Value(CurrentStep) \notin DOMAIN stepValidationCache
    /\ \E r \in RunnerResponses(Value(CurrentStep)) :
          LET err == validateStep(CurrentStep, r)
          IN  /\ stepValidationErrors' =
                     IF err # <<>> THEN Append(stepValidationErrors, err[1])
                     ELSE stepValidationErrors
              /\ stepValidationCache' = CacheStore(stepValidationCache, CurrentStep, err)
              /\ responses' = Append(responses, r)
              /\ pending' = IF err # <<>> THEN <<>> ELSE Tail(pending)
    /\ requests' = Append(requests, Value(CurrentStep))
    /\ UNCHANGED rangeVars
    /\ UNCHANGED <<pc, specs, runner, kills, specIdx,
                   validationStatus, errMap, res, logged, exitCode>>

\* specValidator.Step on a literal step whose text is not in the cache:
\* one round-trip to the runner, the outcome is stored in the cache.
StepCacheMiss ==
    /\ pc = "Step"
    /\ pending # <<>>
    /\ Value(CurrentStep) \notin DOMAIN stepValidationCache
    /\ \E r \in RunnerResponses(Value(CurrentStep)) :
          LET err == validateStep(CurrentStep, r)
          IN  /\ stepValidationErrors' =
                     IF err # <<>> THEN Append(stepValidationErrors, err[1])
                     ELSE stepValidationErrors
              /\ stepValidationCache' = CacheStore(stepValidationCache, CurrentStep, err)
              /\ responses' = Append(responses, r)
    /\ requests' = Append(requests, Value(CurrentStep))
    /\ pending' = Tail(pending)
    /\ UNCHANGED rangeVars
    /\ UNCHANGED <<pc, specs, runner, kills, specIdx,
                   validationStatus, errMap, res, logged, exitCode>>

\* specValidator.Step on a literal step whose text is in the cache.
StepCacheHit ==
    /\ pc = "Step"
    /\ pending # <<>>
    /\ Value(CurrentStep) \in DOMAIN stepValidationCache
    /\ LET val == stepValidationCache[Value(CurrentStep)]
       IN  stepValidationErrors' =
              IF val # <<>>
              THEN Append(stepValidationErrors, CachedError(CurrentStep, val[1]))
              ELSE stepValidationErrors
    /\ pending' = Tail(pending)
    /\ UNCHANGED <<responses, rangeVars>>
    /\ UNCHANGED <<pc, specs, runner, kills, requests, specIdx,
                   stepValidationCache, validationStatus, errMap, res, logged,
                   exitCode>>

\* validationStatus after specValidator.validate returned errors for spec.
StatusStore(status, spec, errors) ==
    IF Len(errors) # 0 THEN Put(status, spec, errors) ELSE status

\* The traversal of the spec is over: specValidator.validate returns the
\* accumulated errors and the loop of validator.validate goes on.
SpecValidated ==
    /\ pc = "Step"
    /\ pending = <<>>
    /\ validationStatus' = StatusStore(validationStatus, specIdx, stepValidationErrors)
    /\ specIdx' = specIdx + 1
    /\ pc' = IF specIdx < Len(specs) THEN "SpecHeading" ELSE "getErrMap"
    /\ UNCHANGED <<responses, rangeVars>>
    /\ UNCHANGED <<specs, runner, kills, requests, pending,
                   stepValidationErrors, stepValidationCache, errMap, res, logged,
                   exitCode>>

\* ValidateSpecs after validate returned: the error maps are built when
\* there are validation errors (order is the order in which range visits
\* the specs); then a parse failure is reported and the runner killed, or
\* the spec collection, the error maps and the runner are returned.
\* specsFailed and resOk are the results of parser.ParseSpecs and
\* parser.ParseConcepts.
ValidateSpecsReturn ==
    /\ pc = "getErrMap"
    /\ \E order \in RangeOrders(validationStatus) :
       \E em \in {IF Cardinality(DOMAIN validationStatus) > 0
                  THEN getErrMap(validationStatus, order)
                  ELSE NewValidationErrMaps} :
       \E specsFailed \in BOOLEAN, resOk \in BOOLEAN :
          /\ errMap' = em
          /\ IF specsFailed \/ ~resOk
             THEN /\ runner' = "killed"
                  /\ kills' = kills + 1
                  /\ res' = NewValidationResult(<<>>, <<>>, <<>>,
                                                <<"Parsing failed.">>)
             ELSE /\ res' = NewValidationResult(<<specs>>, <<em>>, <<"r">>, <<>>)
                  /\ UNCHANGED <<runner, kills>>
    /\ pc' = "Validate"
    /\ UNCHANGED <<responses, rangeVars>>
    /\ UNCHANGED <<specs, requests, specIdx, pending, stepValidationErrors,
                   stepValidationCache, validationStatus, logged, exitCode>>

\* Validate: ValidateSpecs returned errors.
ExitOnErrs ==
    /\ pc = "Validate"
    /\ Len(res.Errs) > 0
    /\ exitCode' = <<1>>
    /\ pc' = "exited"
    /\ UNCHANGED <<responses, rangeVars>>
    /\ UNCHANGED <<specs, runner, kills, requests, specIdx, pending,
                   stepValidationErrors, stepValidationCache, validationStatus,
                   errMap, res, logged>>

\* NoSpecsFound without the call of Kill.
NoSpecsFoundNoKill ==
    /\ pc = "Validate"
    /\ Len(res.Errs) = 0
    /\ Size(res.SpecCollection) < 1
    /\ logged' = Append(logged, "No specifications found")
    /\ exitCode' = <<0>>
    /\ pc' = "exited"
    /\ UNCHANGED <<responses, rangeVars>>
    /\ UNCHANGED <<specs, runner, kills, requests, specIdx, pending,
                   stepValidationErrors, stepValidationCache, validationStatus,
                   errMap, res>>

\* NoSpecsFound treated as a failure.
NoSpecsFoundFails ==
    /\ pc = "Validate"
    /\ Len(res.Errs) = 0
    /\ Size(res.SpecCollection) < 1
    /\ logged' = Append(logged, "No specifications found")
    /\ res.Runner # <<>>
    /\ runner' = "killed"
    /\ kills' = kills + 1
    /\ exitCode' = <<1>>
    /\ pc' = "exited"
    /\ UNCHANGED <<responses, rangeVars>>
    /\ UNCHANGED <<specs, requests, specIdx, pending,
                   stepValidationErrors, stepValidationCache, validationStatus,
                   errMap, res>>

\* Validate: no specifications were found.
NoSpecsFound ==
    /\ pc = "Validate"
    /\ Len(res.Errs) = 0
    /\ Size(res.SpecCollection) < 1
    /\ logged' = Append(logged, "No specifications found")
    /\ res.Runner # <<>>
    /\ runner' = "killed"
    /\ kills' = kills + 1
    /\ exitCode' = <<0>>
    /\ pc' = "exited"
    /\ UNCHANGED <<responses, rangeVars>>
    /\ UNCHANGED <<specs, requests, specIdx, pending,
                   stepValidationErrors, stepValidationCache, validationStatus,
                   errMap, res>>

\* KillAndReport deciding on the spec-level errors instead of the step-level ones.
KillAndReportSpecErrs ==
    /\ pc = "Validate"
    /\ Len(res.Errs) = 0
    /\ Size(res.SpecCollection) >= 1
    /\ res.Runner # <<>>
    /\ runner' = "killed"
    /\ kills' = kills + 1
    /\ IF Cardinality(DOMAIN res.ErrMap[1].SpecErrs) > 0
       THEN exitCode' = <<1>> /\ pc' = "exited" /\ UNCHANGED logged
       ELSE logged' = Append(logged, "No error found.") /\ pc' = "returned"
            /\ UNCHANGED exitCode
    /\ UNCHANGED <<responses, rangeVars>>
    /\ UNCHANGED <<specs, requests, specIdx, pending, stepValidationErrors,
                   stepValidationCache, validationStatus, errMap, res>>

\* Validate: specifications were found; the runner is killed, then exit
\* code 1 when there are step errors, else "No error found."
KillAndReport ==
    /\ pc = "Validate"
    /\ Len(res.Errs) = 0
    /\ Size(res.SpecCollection) >= 1
    /\ res.Runner # <<>>
    /\ runner' = "killed"
    /\ kills' = kills + 1
    /\ IF Cardinality(DOMAIN res.ErrMap[1].StepErrs) > 0
       THEN exitCode' = <<1>> /\ pc' = "exited" /\ UNCHANGED logged
       ELSE logged' = Append(logged, "No error found.") /\ pc' = "returned"
            /\ UNCHANGED exitCode
    /\ UNCHANGED <<responses, rangeVars>>
    /\ UNCHANGED <<specs, requests, specIdx, pending, stepValidationErrors,
                   stepValidationCache, validationStatus, errMap, res>>

Next ==
    \/ ProjectManifest
    \/ ParseConcepts
    \/ ParseSpecs
    \/ startAPI
    \/ validate
    \/ SpecHeading
    \/ StepCacheMiss
    \/ StepCacheHit
    \/ SpecValidated
    \/ ValidateSpecsReturn
    \/ ExitOnErrs
    \/ NoSpecsFound
    \/ KillAndReport

Spec == Init /\ [][Next]_vars

\* ------------------------------------------------- ValidateTableRowsRange
\* A string is a sequence of characters.

Digits == <<"0", "1", "2", "3", "4", "5", "6", "7", "8", "9">>

RECURSIVE ParseDigits(_, _)
\* The loop of strconv.Atoi over the characters after the sign: n is the
\* value so far; a character that is not a digit is a syntax error.
ParseDigits(str, n) ==
    IF str = <<>> THEN [n |-> n, err |-> FALSE]
    ELSE IF IndexIn(Digits, Head(str)) = 0 THEN [n |-> 0, err |-> TRUE]
    ELSE ParseDigits(Tail(str), n * 10 + (IndexIn(Digits, Head(str)) - 1))

\* strconv.Atoi: an optional sign, then one or more decimal digits.  (The
\* strings considered are far too short for the value to leave int.)
Atoi(str) ==
    IF str = <<>> THEN [n |-> 0, err |-> TRUE]
    ELSE IF Head(str) \in {"-", "+"}
    THEN IF Tail(str) = <<>> THEN [n |-> 0, err |-> TRUE]
         ELSE LET r == ParseDigits(Tail(str), 0)
              IN  IF Head(str) = "-" /\ ~r.err THEN [n |-> 0 - r.n, err |-> FALSE]
                  ELSE r
    ELSE ParseDigits(str, 0)

\* The message of every error of ValidateTableRowsRange.
RangeMessage == "Table rows range validation failed."

\* ValidateTableRowsRange accepting an end row beyond the table.
ValidateTableRowsRangeNoRowCount(startStr, endStr, count) ==
    LET startRow == Atoi(startStr)
        endRow == Atoi(endStr)
    IN  IF startRow.err
        THEN [startRow |-> 0, endRow |-> 0, err |-> <<RangeMessage>>]
        ELSE IF endRow.err
        THEN [startRow |-> 0, endRow |-> 0, err |-> <<RangeMessage>>]
        ELSE IF startRow.n > endRow.n \/ startRow.n < 1 \/ endRow.n < 1
        THEN [startRow |-> 0, endRow |-> 0, err |-> <<RangeMessage>>]
        ELSE [startRow |-> startRow.n - 1, endRow |-> endRow.n - 1, err |-> <<>>]

\* ValidateTableRowsRange: its three results, err being nil (<<>>) or
\* <<the message of the error>>.
ValidateTableRowsRange(startStr, endStr, count) ==
    LET startRow == Atoi(startStr)
        endRow == Atoi(endStr)
    IN  IF startRow.err
        THEN [startRow |-> 0, endRow |-> 0, err |-> <<RangeMessage>>]
        ELSE IF endRow.err
        THEN [startRow |-> 0, endRow |-> 0, err |-> <<RangeMessage>>]
        ELSE IF \/ startRow.n > endRow.n
                \/ endRow.n > count
                \/ startRow.n < 1
                \/ endRow.n < 1
        THEN [startRow |-> 0, endRow |-> 0, err |-> <<RangeMessage>>]
        ELSE [startRow |-> startRow.n - 1, endRow |-> endRow.n - 1, err |-> <<>>]

\* The characters of the start and end strings of a call.
ArgChars == {"-", "+", "0", "1", "2", "x"}

\* The start and end strings of a call.
ArgStrings == UNION {[1..n -> ArgChars] : n \in 0..MaxArgLen}

\* A caller is about to call ValidateTableRowsRange; no validation run is
\* going on.
InitRange ==
    /\ pc = "ValidateTableRowsRange"
    /\ specs = <<>>
    /\ runner = "none"
    /\ kills = 0
    /\ requests = <<>>
    /\ responses = <<>>
    /\ specIdx = 0
    /\ pending = <<>>
    /\ stepValidationErrors = <<>>
    /\ stepValidationCache = <<>>
    /\ validationStatus = <<>>
    /\ errMap = NewValidationErrMaps
    /\ res = NewValidationResult(<<>>, <<>>, <<>>, <<>>)
    /\ logged = <<>>
    /\ exitCode = <<>>
    /\ start \in ArgStrings
    /\ end \in ArgStrings
    /\ rowCount \in 0..MaxRowCount
    /\ returned = <<>>

\* The call of ValidateTableRowsRange and its return.
CallValidateTableRowsRange ==
    /\ pc = "ValidateTableRowsRange"
    /\ returned = <<>>
    /\ returned' = <<ValidateTableRowsRange(start, end, rowCount)>>
    /\ UNCHANGED <<runVars, start, end, rowCount>>

NextRange == CallValidateTableRowsRange

SpecRange == InitRange /\ [][NextRange]_vars



\* -------------------------------------------------------------- properties

Range(seq) == {seq[i] : i \in DOMAIN seq}

\* The literal steps of all the specs of the run.
LiteralSteps == UNION {Range(Traverse(i)) : i \in 1..Len(specs)}

\* The errors validator.validate has stored, of all specs.
RecordedErrors == UNION {Range(validationStatus[i]) : i \in DOMAIN validationStatus}

RECURSIVE Nodes(_)
\* The steps of a list with, for a concept step, the steps of its body.
Nodes(steps) ==
    IF steps = <<>> THEN {}
    ELSE {Head(steps)}
         \cup (IF IsConcept(Head(steps)) THEN Nodes(ConceptSteps(Head(steps))) ELSE {})
         \cup Nodes(Tail(steps))

\* validator.validate has returned: every spec was traversed (requests and
\* validationStatus do not change afterwards).
Validated == pc = "getErrMap"

\* ValidateSpecs has called getErrMap (errMap does not change afterwards).
AfterGetErrMap == pc = "Validate" /\ DOMAIN validationStatus # {}

Terminated == pc \in {"exited", "returned"}

\* Step s has a step-level error.
Fails(s) == s \in DOMAIN errMap.StepErrs

\* A context or teardown step of spec i fails, directly or in a concept body.
ContextFails(i) == \E s \in Nodes(Contexts(i) \o TearDownSteps(i)) : Fails(s)

\* A step of the scenario fails, directly or in a concept body.
ScenarioFails(scenario) == \E s \in Nodes(ScenarioSteps(scenario)) : Fails(s)

\* C1: in one run of validator.validate no step text is sent to the runner
\* twice, and at its end exactly the texts of the traversed literal steps
\* have been sent.
C1_OneRequestPerText ==
    /\ \A i, j \in DOMAIN requests : i # j => requests[i] # requests[j]
    /\ Validated => Range(requests) = {Value(s) : s \in LiteralSteps}

\* C1 witness: a text carried by literal steps of two specs, and by a step of
\* a concept body, was sent.
C1_Witness ==
    /\ pc = "getErrMap"
    /\ \E s1, s2, s3 \in LiteralSteps :
          /\ s1[1] # s2[1]
          /\ Parent(s3) # <<>>
          /\ Value(s1) = Value(s2) /\ Value(s2) = Value(s3)
          /\ Value(s1) \in Range(requests)

\* The outcomes recorded for step s: message and error type of its errors.
Outcomes(s) == {<<e.message, e.errorType>> : e \in {x \in RecordedErrors : x.step = s}}

\* C2: at the end of a run two literal steps with the same text have the
\* same outcome: no error for either, or one error each with the same
\* message and the same error type.
C2_SameOutcomeForSameText ==
    Validated =>
        \E of \in {[s \in LiteralSteps |->
                       [text |-> Value(s), outcomes |-> Outcomes(s),
                        errors |-> Cardinality({x \in RecordedErrors : x.step = s})]]} :
            \A s1, s2 \in DOMAIN of :
                of[s1].text = of[s2].text =>
                    /\ of[s1].outcomes = of[s2].outcomes
                    /\ of[s1].errors <= 1

\* C2 witness: two steps of different specs share a text whose first request
\* got an invalid answer, and two steps share a text whose request failed in
\* transport or got a response of another type.
C2_Witness ==
    /\ pc = "getErrMap"
    /\ \E e1, e2 \in RecordedErrors :
          /\ e1.step[1] # e2.step[1]
          /\ Value(e1.step) = Value(e2.step)
          /\ e1.errorType = <<RunnerErrorType[Value(e1.step)]>>
    /\ \E e1, e2 \in RecordedErrors :
          /\ e1.step # e2.step
          /\ Value(e1.step) = Value(e2.step)
          /\ e1.errorType \in {<<>>, <<invalidResponse>>}

\* C3: every error recorded for a step reached through concept expansion
\* names the defining file of the concept found under the parent's text.
C3_ConceptFileAttribution ==
    \A e \in Range(stepValidationErrors) :
        Parent(e.step) # <<>> =>
            e.fileName = Search(Value(Parent(e.step)[1])).FileName

\* C4: after getErrMap a spec passed to it has a non-empty spec-level entry
\* iff a context or teardown step fails, or it has scenarios and all fail.
C4_SpecEntryIff ==
    AfterGetErrMap =>
        \A i \in DOMAIN validationStatus :
            (i \in DOMAIN errMap.SpecErrs /\ errMap.SpecErrs[i] # <<>>)
            <=> \/ ContextFails(i)
                \/ /\ Len(Scenarios(i)) > 0
                   /\ \A j \in 1..Len(Scenarios(i)) : ScenarioFails(Scenarios(i)[j])

\* C4 witness: a spec in which one scenario fails and another does not, and
\* no context or teardown step fails, has no spec-level entry.
C4_Witness ==
    /\ AfterGetErrMap
    /\ \E i \in DOMAIN validationStatus :
          /\ ~ContextFails(i)
          /\ Len(Scenarios(i)) >= 2
          /\ \E j, k \in 1..Len(Scenarios(i)) :
                ScenarioFails(Scenarios(i)[j]) /\ ~ScenarioFails(Scenarios(i)[k])
          /\ i \notin DOMAIN errMap.SpecErrs

\* C5: when every scenario of a spec fails and no context or teardown step
\* does, the spec-level list is the list of the first scenario.
C5_RollUpIsFirstScenario ==
    AfterGetErrMap =>
        \A i \in DOMAIN validationStatus :
            (/\ Len(Scenarios(i)) > 0
             /\ \A j \in 1..Len(Scenarios(i)) : ScenarioFails(Scenarios(i)[j])
             /\ ~ContextFails(i))
            => /\ i \in DOMAIN errMap.SpecErrs
               /\ errMap.SpecErrs[i] = errMap.ScenarioErrs[Scenarios(i)[1]]

\* C5 witness: a spec with several failing scenarios whose lists differ is
\* rolled up.
C5_Witness ==
    /\ AfterGetErrMap
    /\ \E i \in DOMAIN validationStatus :
          /\ Len(Scenarios(i)) >= 2
          /\ \A j \in 1..Len(Scenarios(i)) : ScenarioFails(Scenarios(i)[j])
          /\ ~ContextFails(i)
          /\ errMap.ScenarioErrs[Scenarios(i)[2]] # errMap.ScenarioErrs[Scenarios(i)[1]]
          /\ Len(errMap.SpecErrs[i]) >= 1

\* The failing context and teardown steps of spec i, in the order of
\* fillSpecErrors.
FailingContexts(i) ==
    SelectSeq(Expand(Contexts(i) \o TearDownSteps(i)), LAMBDA s : Fails(s))

\* C6 as claimed: the list of a scenario whose own steps pass holds the
\* error of every failing context or teardown step of its spec.
C6_EveryContextErrorPropagated ==
    AfterGetErrMap =>
        \A i \in DOMAIN validationStatus :
            \A c \in Nodes(Contexts(i) \o TearDownSteps(i)) :
                \A j \in 1..Len(Scenarios(i)) :
                    (Fails(c) /\ ~ScenarioFails(Scenarios(i)[j]))
                    => /\ Scenarios(i)[j] \in DOMAIN errMap.ScenarioErrs
                       /\ errMap.StepErrs[c] \in Range(errMap.ScenarioErrs[Scenarios(i)[j]])

\* C6 amended: the list of a scenario whose own steps pass holds exactly
\* the error of the first failing context or teardown step of its spec.
C6_FirstContextErrorPropagated ==
    AfterGetErrMap =>
        \A i \in DOMAIN validationStatus :
            \A j \in 1..Len(Scenarios(i)) :
                (ContextFails(i) /\ ~ScenarioFails(Scenarios(i)[j]))
                => /\ Scenarios(i)[j] \in DOMAIN errMap.ScenarioErrs
                   /\ errMap.ScenarioErrs[Scenarios(i)[j]] =
                          <<errMap.StepErrs[FailingContexts(i)[1]]>>

\* C6 witness: a spec with two scenarios whose steps pass and a failing
\* context or teardown step.
C6_Witness ==
    /\ AfterGetErrMap
    /\ \E i \in DOMAIN validationStatus :
          /\ ContextFails(i)
          /\ Len(Scenarios(i)) >= 2
          /\ \A j \in 1..Len(Scenarios(i)) : ~ScenarioFails(Scenarios(i)[j])
          /\ \A j \in 1..Len(Scenarios(i)) :
                Len(errMap.ScenarioErrs[Scenarios(i)[j]]) = 1

\* C7: Kill is never called twice, and when Validate has ended with a
\* runner started, Kill has been called exactly once.
C7_KilledOnceOnEveryPath ==
    /\ kills <= 1
    /\ (Terminated /\ runner # "none") => (kills = 1 /\ runner = "killed")

\* C7 witness: the run ended on a parse failure reported after the runner
\* was started.
C7_Witness ==
    /\ Terminated
    /\ res.Errs = <<"Parsing failed.">>
    /\ kills = 1
    /\ runner = "killed"

\* ValidateSpecs ended by reporting a parse failure.
ParseFailureReported == res.Errs \in {<<"critical error">>, <<"Parsing failed.">>}

\* C8 as claimed: when a parse failure is reported, the runner was never
\* started and no request was sent.
C8_ParseFailureBeforeRunner ==
    ParseFailureReported => (runner = "none" /\ requests = <<>>)

\* C8 amended: on critical errors of the concept parsing the runner was
\* never started and no request was sent; a parse failure reported for
\* failed spec parsing or a parse result that is not Ok comes after
\* validation, with the runner started and killed.
C8_CriticalErrorsBeforeRunner ==
    /\ res.Errs = <<"critical error">> => (runner = "none" /\ requests = <<>>)
    /\ res.Errs = <<"Parsing failed.">>
          => (runner = "killed" /\ kills = 1 /\ specIdx = Len(specs) + 1)

\* C8 witness: Validate ended on critical errors of the concept parsing.
C8_Witness ==
    /\ Terminated
    /\ res.Errs = <<"critical error">>
    /\ exitCode = <<1>>

\* C9: once step errors are recorded, "No error found." is never logged
\* and Validate ends with exit code 1; Validate returns normally only
\* without step errors, with a spec found and without parse errors.
C9_StepErrorsFailTheRun ==
    /\ DOMAIN validationStatus # {} => "No error found." \notin Range(logged)
    /\ (Terminated /\ DOMAIN validationStatus # {}) => exitCode = <<1>>
    /\ pc = "returned" =>
          /\ logged = <<"No error found.">>
          /\ DOMAIN validationStatus = {}
          /\ DOMAIN errMap.StepErrs = {}
          /\ Len(specs) >= 1
          /\ res.Errs = <<>>

\* C9 witness: the run failed on the step errors of one spec although the
\* other spec has none, and no parse failure was reported.
C9_Witness ==
    /\ pc = "exited"
    /\ exitCode = <<1>>
    /\ res.Errs = <<>>
    /\ Len(specs) = 2
    /\ Cardinality(DOMAIN validationStatus) = 1
    /\ \E i \in 1..Len(specs) : i \notin DOMAIN validationStatus /\ Traverse(i) # <<>>

\* The run found no specification: the runner came up, parsing succeeded
\* and no spec was selected.
NoSpecsRun ==
    /\ Terminated
    /\ runner # "none"
    /\ res.Errs = <<>>
    /\ Len(specs) = 0

\* C10: a run that parsed successfully and found no specification records
\* no validation error and ends, the runner killed, with exit code 0 and
\* the message "No specifications found", not "No error found.".
C10_NoSpecsFound ==
    /\ NoSpecsRun =>
          /\ exitCode = <<0>>
          /\ logged = <<"No specifications found">>
          /\ kills = 1
          /\ requests = <<>>
          /\ DOMAIN validationStatus = {}
          /\ DOMAIN errMap.StepErrs = {}
    /\ (pc = "Validate" /\ res.Errs = <<>> /\ Len(specs) = 0)
          => (ENABLED NoSpecsFound /\ ~ENABLED ExitOnErrs /\ ~ENABLED KillAndReport)

\* C10 witness: the run ended in the state "no specifications found".
C10_Witness ==
    /\ NoSpecsRun
    /\ exitCode = <<0>>
    /\ logged = <<"No specifications found">>


\* The runner's answer to the request for the step text (one request per
\* text) says the step is not valid: anything but a StepValidateResponse
\* with IsValid.
InvalidOutcome(text) ==
    \E n \in DOMAIN requests :
        /\ requests[n] = text
        /\ ~(/\ ~responses[n].err
              /\ responses[n].MessageType = "StepValidateResponse"
              /\ responses[n].IsValid)

\* The literal steps of spec i whose text has an invalid outcome, in
\* traversal order.
FailingSteps(i) == SelectSeq(Traverse(i), LAMBDA s : InvalidOutcome(Value(s)))

\* The errors specValidator.validate returned for spec i.
ErrorsOf(i) == Get(validationStatus, i)

\* C11: a failing step never stops the pass.  When validator.validate has
\* returned, the errors returned for a spec are, in traversal order, one
\* error for every literal step position of the spec (context, scenario,
\* teardown and concept-body steps) whose text has an invalid outcome, and
\* no error for any other step.
C11_OneErrorPerFailingStep ==
    Validated =>
        \A i \in 1..Len(specs) :
            \E failing \in {FailingSteps(i)} :
                /\ Len(ErrorsOf(i)) = Len(failing)
                /\ \A n \in DOMAIN failing : ErrorsOf(i)[n].step = failing[n]

\* A spec whose first literal step fails and which has a later valid step
\* and a still later failing one, two of them in a concept body.
C11_Witness ==
    /\ Validated
    /\ \E i \in 1..Len(specs) :
           /\ Len(Traverse(i)) >= 3
           /\ Len(ErrorsOf(i)) = 2
           /\ ErrorsOf(i)[1].step = Traverse(i)[1]
           /\ ErrorsOf(i)[2].step = Traverse(i)[3]
           /\ Parent(Traverse(i)[1]) # <<>>


\* C12: getErrMap is a function of the per-spec step-error lists and the
\* spec trees alone.  Whatever the order in which range visits the specs
\* of validationStatus, getErrMap yields the same StepErrs, ScenarioErrs
\* and SpecErrs maps (same keys, same lists in the same order).
C12_GetErrMapOrderIndependent ==
    (Validated /\ Cardinality(DOMAIN validationStatus) > 1) =>
        Cardinality({getErrMap(validationStatus, order) :
                        order \in RangeOrders(validationStatus)}) = 1

\* Two specs have errors, so range has two orders; one spec has a scenario
\* with errors and one without, the other a roll-up.
C12_Witness ==
    /\ Validated
    /\ Cardinality(RangeOrders(validationStatus)) = 2
    /\ \E em \in {getErrMap(validationStatus, <<1, 2>>)} :
       \E i, j \in 1..Len(specs) :
           /\ i # j
           /\ Len(Scenarios(i)) = 2
           /\ Cardinality(DOMAIN em.ScenarioErrs \cap Range(Scenarios(i))) = 1
           /\ Len(Scenarios(j)) = 1
           /\ j \in DOMAIN em.SpecErrs


\* C13: ValidateTableRowsRange(start, end, rowCount) returns
\* (s - 1, e - 1, no error) exactly when both strings parse as integers s
\* and e with 1 <= s <= e <= rowCount; in every other case it returns
\* (0, 0) and the one generic error, whatever the cause.
C13_RangeResult ==
    returned # <<>> =>
        LET s == Atoi(start)
            e == Atoi(end)
        IN  IF /\ ~s.err
               /\ ~e.err
               /\ 1 <= s.n
               /\ s.n <= e.n
               /\ e.n <= rowCount
            THEN returned[1] = [startRow |-> s.n - 1, endRow |-> e.n - 1, err |-> <<>>]
            ELSE returned[1] = [startRow |-> 0, endRow |-> 0,
                                err |-> <<"Table rows range validation failed.">>]

\* A call with a range of two rows that ends at the last row returned.
C13_Witness ==
    /\ returned # <<>>
    /\ returned[1] = [startRow |-> 0, endRow |-> 1, err |-> <<>>]
    /\ rowCount = 2


\* C14: every validation error recorded for a top-level literal step (a
\* step without Parent) has as file name the file of the spec that was
\* being traversed, also when the outcome came from the cache and the
\* cached error was created in another spec or in a concept body.
C14_TopLevelErrorInSpecFile ==
    Validated =>
        \A i \in DOMAIN validationStatus :
            \A n \in DOMAIN validationStatus[i] :
                Parent(validationStatus[i][n].step) = <<>> =>
                    validationStatus[i][n].fileName = specs[i].FileName

\* A top-level step has an error taken from the cache, and the cached
\* error is that of another step and names another file.
C14_Witness ==
    /\ Validated
    /\ \E e \in RecordedErrors :
           /\ Parent(e.step) = <<>>
           /\ stepValidationCache[Value(e.step)][1].step # e.step
           /\ stepValidationCache[Value(e.step)][1].fileName # e.fileName


\* The errors for step s among errors.
ErrorsAt(errors, s) == {e \in errors : e.step = s}

\* C15: a runner-side failure on one request fails only that step text and
\* never aborts the run.  When validator.validate has returned, every
\* spec was traversed and every literal step's text was sent; a step whose
\* text got a transport failure has an error with the transport error text
\* and no error type, a step whose text got a message of another type has
\* an error with the error type invalidResponse (-1), and a step with
\* another text is classified by the response to its own text: no error
\* when valid, an error with the runner's error type when invalid.
C15_RunnerFailureFailsOneText ==
    Validated =>
        /\ specIdx = Len(specs) + 1
        /\ \E errors \in {RecordedErrors} :
           \A s \in LiteralSteps :
               \E n \in DOMAIN requests :
                   /\ requests[n] = Value(s)
                   /\ IF responses[n].err
                      THEN \E e \in ErrorsAt(errors, s) :
                               /\ e.message = TransportErrorText
                               /\ e.errorType = <<>>
                      ELSE IF responses[n].MessageType # "StepValidateResponse"
                      THEN \E e \in ErrorsAt(errors, s) : e.errorType = <<0 - 1>>
                      ELSE IF responses[n].IsValid
                      THEN ErrorsAt(errors, s) = {}
                      ELSE \E e \in ErrorsAt(errors, s) :
                               e.errorType = <<responses[n].ErrorType>>

\* The first request met a transport failure and the second, for another
\* text, a message of another type; a step of the first text was visited
\* again after that.
C15_Witness ==
    /\ Validated
    /\ Len(requests) = 2
    /\ responses[1].err
    /\ ~responses[2].err
    /\ responses[2].MessageType # "StepValidateResponse"
    /\ \E i \in DOMAIN validationStatus :
           /\ Len(validationStatus[i]) = 3
           /\ validationStatus[i][1].errorType = <<>>
           /\ validationStatus[i][2].errorType = <<invalidResponse>>
           /\ validationStatus[i][3].errorType = <<>>


\* The place of a section in the traversal of spec i: the contexts, the
\* scenarios in order, the teardown steps.
SectionRank(i, section) ==
    IF section = TearDownSection THEN Len(Scenarios(i)) + 1 ELSE section

\* Step s comes before step t of the same spec in depth-first order,
\* neither being in the body of the other: at the first place where the
\* positions differ, s is in the earlier section or at the smaller index.
Before(s, t) ==
    \E d \in 2..Len(s) :
        /\ d <= Len(t)
        /\ SubSeq(s, 1, d - 1) = SubSeq(t, 1, d - 1)
        /\ IF d = 2 THEN SectionRank(s[1], s[d]) < SectionRank(s[1], t[d])
                    ELSE s[d] < t[d]

\* The steps of spec i: the top-level ones and those of concept bodies at
\* every depth, the concept steps included.
NodesOfSpec(i) == Nodes(Contexts(i) \o ScenariosFrom(i, 1) \o TearDownSteps(i))

\* C16: a step flagged as a concept is never itself validated.  No request
\* carries the text of a concept step, the cache has no entry for it, no
\* recorded error and no key of StepErrs is a concept step; and the steps
\* the traversal of a spec hands to the validation are exactly the literal
\* steps of the spec, those of the recursively expanded concept bodies
\* included, each once per call site and in depth-first (body) order.
C16_ConceptNeverValidated ==
    /\ [](/\ \A n \in DOMAIN requests : requests[n] \notin DOMAIN ConceptDictionary
          /\ DOMAIN stepValidationCache \cap DOMAIN ConceptDictionary = {}
          /\ \A n \in DOMAIN stepValidationErrors :
                 ~IsConcept(stepValidationErrors[n].step)
          /\ \A s \in DOMAIN errMap.StepErrs : ~IsConcept(s))
    /\ [][pc = "SpecHeading" /\ pc' = "Step" =>
             /\ Range(pending') = {s \in NodesOfSpec(specIdx) : ~IsConcept(s)}
             /\ \A m, n \in DOMAIN pending' :
                    m < n => Before(pending'[m], pending'[n])]_vars

\* A spec invokes the concept k twice; k nests the concept kk.  The
\* traversal is over, the literal steps of both bodies were visited.
C16_Witness ==
    /\ Validated
    /\ \E i \in 1..Len(specs) :
           /\ Cardinality({s \in NodesOfSpec(i) : IsConcept(s) /\ Value(s) = "k"}) = 2
           /\ Len(Traverse(i)) = 4
    /\ Range(requests) = {"a", "b"}


\* C17: after getErrMap, the list of a scenario that has a failing step
\* holds the step-level errors of the scenario's failing literal steps,
\* those of concept bodies included, each once and in depth-first order,
\* and nothing else: no context or teardown error, no error of another
\* scenario.
C17_ScenarioErrsOfFailingScenario ==
    AfterGetErrMap =>
        \A i \in 1..Len(specs) :
            \A j \in 1..Len(Scenarios(i)) :
                \E sc \in {Scenarios(i)[j]} :
                \E failing \in {{s \in Nodes(ScenarioSteps(sc)) : Fails(s)}} :
                    failing # {} =>
                        /\ sc \in DOMAIN errMap.ScenarioErrs
                        /\ {errMap.ScenarioErrs[sc][n].step :
                                n \in DOMAIN errMap.ScenarioErrs[sc]}
                           = failing
                        /\ \A n \in DOMAIN errMap.ScenarioErrs[sc] :
                               errMap.ScenarioErrs[sc][n]
                               = errMap.StepErrs[errMap.ScenarioErrs[sc][n].step]
                        /\ \A m, n \in DOMAIN errMap.ScenarioErrs[sc] :
                               m < n => Before(errMap.ScenarioErrs[sc][m].step,
                                               errMap.ScenarioErrs[sc][n].step)

\* A spec has a failing context step and a scenario with two failing
\* steps, the first of them in a concept body.
C17_Witness ==
    /\ AfterGetErrMap
    /\ \E i \in 1..Len(specs) :
           /\ ContextFails(i)
           /\ \E j \in 1..Len(Scenarios(i)) :
                  /\ ScenarioFails(Scenarios(i)[j])
                  /\ Len(errMap.ScenarioErrs[Scenarios(i)[j]]) = 2
                  /\ Parent(errMap.ScenarioErrs[Scenarios(i)[j]][1].step) # <<>>


\* C18: the error accumulator is reset at each spec heading.  When
\* validator.validate has returned, the list stored for a spec holds only
\* errors of steps of that spec, never those of an earlier spec, and a
\* spec none of whose steps fails has no entry, even after a spec with
\* errors.
C18_ErrorsOfOwnSpecOnly ==
    Validated =>
        \A i \in 1..Len(specs) :
            \E failing \in {FailingSteps(i)} :
                /\ \A n \in DOMAIN ErrorsOf(i) :
                       \E m \in DOMAIN failing : ErrorsOf(i)[n].step = failing[m]
                /\ failing = <<>> => i \notin DOMAIN validationStatus

\* The first spec has errors, the second one has steps and none of them
\* fails.
C18_Witness ==
    /\ Validated
    /\ Len(specs) = 2
    /\ DOMAIN validationStatus = {1}
    /\ Traverse(2) # <<>>


\* The errors of the lists of a map of error lists.
ListedErrors(m) == UNION {Range(m[k]) : k \in DOMAIN m}

\* C19: the three error maps are consistent with each other.  After
\* getErrMap the error stored under a key s of StepErrs has s as its step;
\* every error validate returned for a spec is for a step of that spec, a
\* different step for each error (a cache hit makes a new error for the
\* current step), and that step is a key; and every error in a list of
\* ScenarioErrs or SpecErrs is the StepErrs value of its own step.
C19_ErrMapsConsistent ==
    AfterGetErrMap =>
        /\ \A i \in DOMAIN validationStatus :
               \A n \in DOMAIN validationStatus[i] :
                   /\ validationStatus[i][n].step \in DOMAIN errMap.StepErrs
                   /\ validationStatus[i][n].step[1] = i
                   /\ \A m \in 1..(n - 1) :
                          validationStatus[i][m].step # validationStatus[i][n].step
        /\ \A s \in DOMAIN errMap.StepErrs : errMap.StepErrs[s].step = s
        /\ \A e \in ListedErrors(errMap.ScenarioErrs) \cup ListedErrors(errMap.SpecErrs) :
               /\ e.step \in DOMAIN errMap.StepErrs
               /\ errMap.StepErrs[e.step] = e

\* A step whose error came from the cache is a key of StepErrs; a
\* scenario's list holds a context error and a spec's list the errors
\* rolled up from a scenario.
C19_Witness ==
    /\ AfterGetErrMap
    /\ \E s \in DOMAIN errMap.StepErrs :
           stepValidationCache[Value(s)][1].step # s
    /\ \E sc \in DOMAIN errMap.ScenarioErrs :
           \E e \in Range(errMap.ScenarioErrs[sc]) : e.step[2] = 0
    /\ \E i \in DOMAIN errMap.SpecErrs :
           \E e \in Range(errMap.SpecErrs[i]) : e.step[2] > 0
====
